---- MODULE Spec2Model ----
(***************************************************************************)
(* Model of the consensus-parameter lookups of zcash_primitives            *)
(* (consensus.rs) and of the Sapling verification context of zcash_proofs  *)
(* (sapling/verifier.rs).                                                  *)
(*                                                                         *)
(* Three specifications share the module:                                  *)
(*   SpecConsensus  applies the pure consensus functions to inputs drawn   *)
(*                  from bounded sets, on either build (feature zfuture);  *)
(*   Spec           runs check_spend / check_output / final_check on one   *)
(*                  verification context;                                  *)
(*   SpecPar        interleaves the same calls on NumCtx contexts.         *)
(*                                                                         *)
(* The curve is a group of TorsionOrder * SubgroupOrder points; signatures *)
(* and proofs are ideal: a signature verifies only under the key of its    *)
(* signer and over its message, a proof only for its statement.            *)
(***************************************************************************)
EXTENDS Integers, Sequences, FiniteSets, TLC

VARIABLES
    zfuture,            \* build configuration: cargo feature "zfuture"
    query,              \* the last consensus function applied, and its result
    cv_sum,             \* cv_sum[i]: running sum of context i
    zip216_enabled,     \* zip216_enabled[i]: policy flag of context i
    spends,             \* spends[i]: value commitments accumulated by check_spend on i
    outputs,            \* outputs[i]: value commitments accumulated by check_output on i
    finals,             \* finals[i]: number of final_check calls made on context i
    reused,             \* reused[i]: a check_spend/check_output ran on i after a final_check
    budget,             \* number of calls that may still be made on the contexts
    last                \* the last call made on a context: arguments and result

vars == <<zfuture, query, cv_sum, zip216_enabled, spends, outputs, finals,
          reused, budget, last>>

consensusVars == <<zfuture, query>>
verifierVars == <<cv_sum, zip216_enabled, spends, outputs, finals, reused,
                  budget, last>>

(***************************************************************************)
(* Bounds of the model.                                                    *)
(***************************************************************************)
HeightSlack == 1        \* heights within this distance of an activation height
WireSlack == 1          \* wire values within this distance of a defined identifier
TorsionOrder == 2       \* order of the torsion (small-order) subgroup of the curve
SubgroupOrder == 3      \* order of the prime-order subgroup of the curve
NumCtx == 2             \* verification contexts constructed side by side in SpecPar
MaxCalls == 3           \* number of calls made on the context of Spec
MaxParCalls == 2        \* number of calls made on the contexts of SpecPar
MaxSighash == 1         \* sighash values are 0..MaxSighash
MaxAmount == 1          \* largest representable value balance
MaxScalar == 0          \* anchors and note commitments are 0..MaxScalar
MaxNullifier == 0       \* nullifiers are 0..MaxNullifier

(***************************************************************************)
(* Option and Result values.                                               *)
(***************************************************************************)
None == [tag |-> "None"]
Some(x) == [tag |-> "Some", val |-> x]
Ok(x) == [tag |-> "Ok", val |-> x]
Err(e) == [tag |-> "Err", err |-> e]

(***************************************************************************)
(* consensus.rs                                                            *)
(***************************************************************************)

\* enum NetworkUpgrade; the ZFuture variant exists only with feature "zfuture"
NetworkUpgrade ==
    {"Overwinter", "Sapling", "Ycash", "Blossom", "Heartwood", "Canopy"}
        \cup (IF zfuture THEN {"ZFuture"} ELSE {})

\* enum BranchId
BranchId ==
    {"Sprout", "Overwinter", "Sapling", "Ycash", "Blossom", "Heartwood", "Canopy"}
        \cup (IF zfuture THEN {"ZFuture"} ELSE {})

\* const UPGRADES_IN_ORDER
UPGRADES_IN_ORDER ==
    <<"Overwinter", "Sapling", "Ycash", "Blossom", "Heartwood", "Canopy">>

\* A panic!: the thread unwinds, no value is returned to the caller
Panic(msg) == [tag |-> "Panic", msg |-> msg]

\* struct BlockHeight(u32)
BlockHeight(v) == [tag |-> "BlockHeight", val |-> v]

\* Subtraction of a u32 that stops at height 0 instead of panicking
BlockHeight_sub_u32_saturating(self, other) ==
    IF other > self.val
    THEN BlockHeight(0)
    ELSE BlockHeight(self.val - other)

\* impl Sub<u32> for BlockHeight: sub
BlockHeight_sub_u32(self, other) ==
    IF other > self.val
    THEN Panic("Subtraction resulted in negative block height.")
    ELSE BlockHeight(self.val - other)

\* impl Sub for BlockHeight: sub, which is self - other.0
BlockHeight_sub(self, other) == BlockHeight_sub_u32(self, other.val)

\* impl Parameters for MainNetwork: activation_height
MainNetwork_activation_height(nu) ==
    CASE nu = "Overwinter" -> Some(347500)
      [] nu = "Sapling"    -> Some(419200)
      [] nu = "Ycash"      -> Some(570000)
      [] nu = "Blossom"    -> Some(10000000)
      [] nu = "Heartwood"  -> Some(20000000)
      [] nu = "Canopy"     -> Some(30000000)
      [] nu = "ZFuture"    -> None

\* TestNetwork activation heights with a digit of the Ycash height lost
TestNetwork_activation_height_typo(nu) ==
    CASE nu = "Overwinter" -> Some(207500)
      [] nu = "Sapling"    -> Some(280000)
      [] nu = "Ycash"      -> Some(51248)
      [] nu = "Blossom"    -> Some(10000000)
      [] nu = "Heartwood"  -> Some(20000000)
      [] nu = "Canopy"     -> Some(30000000)
      [] nu = "ZFuture"    -> None

\* impl Parameters for TestNetwork: activation_height
TestNetwork_activation_height(nu) ==
    CASE nu = "Overwinter" -> Some(207500)
      [] nu = "Sapling"    -> Some(280000)
      [] nu = "Ycash"      -> Some(510248)
      [] nu = "Blossom"    -> Some(10000000)
      [] nu = "Heartwood"  -> Some(20000000)
      [] nu = "Canopy"     -> Some(30000000)
      [] nu = "ZFuture"    -> None

\* The implementors of trait Parameters: the two marker structs and the two
\* values of the runtime dispatcher enum Network.
ParametersImpls ==
    {"MAIN_NETWORK", "TEST_NETWORK", "Network::MainNetwork", "Network::TestNetwork"}

\* impl Parameters for Network: activation_height
Network_activation_height(variant, nu) ==
    CASE variant = "Network::MainNetwork" -> MainNetwork_activation_height(nu)
      [] variant = "Network::TestNetwork" -> TestNetwork_activation_height(nu)

\* Parameters::activation_height, dispatched on the implementor
activation_height(p, nu) ==
    CASE p = "MAIN_NETWORK" -> MainNetwork_activation_height(nu)
      [] p = "TEST_NETWORK" -> TestNetwork_activation_height(nu)
      [] OTHER              -> Network_activation_height(p, nu)

\* is_nu_active with a strict comparison
is_nu_active_strict(p, nu, height) ==
    LET a == activation_height(p, nu)
    IN  IF a.tag = "Some" THEN a.val < height ELSE FALSE

\* Parameters::is_nu_active: activation_height(nu).map_or(false, |h| h <= height)
is_nu_active(p, nu, height) ==
    LET a == activation_height(p, nu)
    IN  IF a.tag = "Some" THEN a.val <= height ELSE FALSE

\* NetworkUpgrade::branch_id
branch_id(nu) ==
    CASE nu = "Overwinter" -> "Overwinter"
      [] nu = "Sapling"    -> "Sapling"
      [] nu = "Ycash"      -> "Ycash"
      [] nu = "Blossom"    -> "Blossom"
      [] nu = "Heartwood"  -> "Heartwood"
      [] nu = "Canopy"     -> "Canopy"
      [] nu = "ZFuture"    -> "ZFuture"

\* The loop of BranchId::for_height: UPGRADES_IN_ORDER.iter().rev(), from
\* position i down to the first element.
RECURSIVE for_height_from(_, _, _)
for_height_from(p, height, i) ==
    IF i = 0
    THEN "Sprout"
    ELSE IF is_nu_active(p, UPGRADES_IN_ORDER[i], height)
         THEN branch_id(UPGRADES_IN_ORDER[i])
         ELSE for_height_from(p, height, i - 1)

\* for_height without .rev(): the earliest active upgrade wins
RECURSIVE for_height_forward_from(_, _, _)
for_height_forward_from(p, height, i) ==
    IF i > Len(UPGRADES_IN_ORDER)
    THEN "Sprout"
    ELSE IF is_nu_active(p, UPGRADES_IN_ORDER[i], height)
         THEN branch_id(UPGRADES_IN_ORDER[i])
         ELSE for_height_forward_from(p, height, i + 1)

for_height_forward(p, height) == for_height_forward_from(p, height, 1)

\* BranchId::for_height
for_height(p, height) == for_height_from(p, height, Len(UPGRADES_IN_ORDER))

\* A u32 on the wire is written <<high 16 bits, low 16 bits>>.
U32(hi, lo) == <<hi, lo>>

\* try_from with the identifiers of Heartwood and Canopy exchanged
try_from_swapped(value) ==
    CASE value = U32(0, 0)                     -> Ok("Sprout")
      [] value = U32(23464, 6937)              -> Ok("Overwinter")
      [] value = U32(30392, 2491)              -> Ok("Sapling")
      [] value = U32(14157, 26959)             -> Ok("Ycash")
      [] value = U32(11188, 3680)              -> Ok("Blossom")
      [] value = U32(59903, 30118)             -> Ok("Heartwood")
      [] value = U32(62905, 8971)              -> Ok("Canopy")
      [] zfuture /\ value = U32(65535, 65535)  -> Ok("ZFuture")
      [] OTHER                                 -> Err("Unknown consensus branch ID")

\* impl TryFrom<u32> for BranchId
try_from(value) ==
    CASE value = U32(0, 0)                     -> Ok("Sprout")
      [] value = U32(23464, 6937)              -> Ok("Overwinter")  \* 0x5ba8_1b19
      [] value = U32(30392, 2491)              -> Ok("Sapling")     \* 0x76b8_09bb
      [] value = U32(14157, 26959)             -> Ok("Ycash")       \* 0x374d_694f
      [] value = U32(11188, 3680)              -> Ok("Blossom")     \* 0x2bb4_0e60
      [] value = U32(62905, 8971)              -> Ok("Heartwood")   \* 0xf5b9_230b
      [] value = U32(59903, 30118)             -> Ok("Canopy")      \* 0xe9ff_75a6
      [] zfuture /\ value = U32(65535, 65535)  -> Ok("ZFuture")     \* 0xffff_ffff
      [] OTHER                                 -> Err("Unknown consensus branch ID")

\* impl From<BranchId> for u32
u32_from(consensus_branch_id) ==
    CASE consensus_branch_id = "Sprout"     -> U32(0, 0)
      [] consensus_branch_id = "Overwinter" -> U32(23464, 6937)
      [] consensus_branch_id = "Sapling"    -> U32(30392, 2491)
      [] consensus_branch_id = "Ycash"      -> U32(14157, 26959)
      [] consensus_branch_id = "Blossom"    -> U32(11188, 3680)
      [] consensus_branch_id = "Heartwood"  -> U32(62905, 8971)
      [] consensus_branch_id = "Canopy"     -> U32(59903, 30118)
      [] consensus_branch_id = "ZFuture"    -> U32(65535, 65535)

(***************************************************************************)
(* Inputs of the consensus functions.                                      *)
(***************************************************************************)
AllUpgrades ==
    {"Overwinter", "Sapling", "Ycash", "Blossom", "Heartwood", "Canopy", "ZFuture"}

ActivationHeights ==
    {MainNetwork_activation_height(nu).val : nu \in AllUpgrades \ {"ZFuture"}}
        \cup {TestNetwork_activation_height(nu).val : nu \in AllUpgrades \ {"ZFuture"}}

\* Block heights around every activation height of either network, and 0.
HeightInputs ==
    {0} \cup {a + d : a \in ActivationHeights, d \in (0 - HeightSlack)..HeightSlack}

DefinedWire ==
    {U32(0, 0), U32(23464, 6937), U32(30392, 2491), U32(14157, 26959),
     U32(11188, 3680), U32(62905, 8971), U32(59903, 30118), U32(65535, 65535)}

\* Wire values: every identifier of the table, its neighbours, and every
\* identifier with its halves exchanged.
WireInputs ==
    UNION {{U32(w[1], w[2] + d) : d \in {e \in (0 - WireSlack)..WireSlack :
                                              w[2] + e \in 0..65535}} :
           w \in DefinedWire}
        \cup {U32(w[2], w[1]) : w \in DefinedWire}

NoQuery == [op |-> "none"]

(***************************************************************************)
(* Actions of SpecConsensus: one per consensus function.                   *)
(***************************************************************************)
CallActivationHeight(p, nu) ==
    /\ query' = [op |-> "activation_height", params |-> p, nu |-> nu,
                 result |-> activation_height(p, nu)]
    /\ UNCHANGED <<zfuture, verifierVars>>

CallIsNuActive(p, nu, height) ==
    /\ query' = [op |-> "is_nu_active", params |-> p, nu |-> nu, height |-> height,
                 result |-> is_nu_active(p, nu, height)]
    /\ UNCHANGED <<zfuture, verifierVars>>

CallForHeight(p, height) ==
    /\ query' = [op |-> "for_height", params |-> p, height |-> height,
                 result |-> for_height(p, height)]
    /\ UNCHANGED <<zfuture, verifierVars>>

CallTryFrom(value) ==
    /\ query' = [op |-> "try_from", value |-> value, result |-> try_from(value)]
    /\ UNCHANGED <<zfuture, verifierVars>>

CallU32From(b) ==
    /\ query' = [op |-> "u32_from", branch |-> b, result |-> u32_from(b)]
    /\ UNCHANGED <<zfuture, verifierVars>>

\* BlockHeight - u32
CallSubU32(height, delta) ==
    /\ query' = [op |-> "sub_u32", height |-> height, delta |-> delta,
                 result |-> BlockHeight_sub_u32(BlockHeight(height), delta)]
    /\ UNCHANGED <<zfuture, verifierVars>>

\* BlockHeight - BlockHeight
CallSub(height, other) ==
    /\ query' = [op |-> "sub", height |-> height, delta |-> other,
                 result |-> BlockHeight_sub(BlockHeight(height), BlockHeight(other))]
    /\ UNCHANGED <<zfuture, verifierVars>>

\* tests::nu_ordering, one iteration: the activation heights of the
\* neighbours UPGRADES_IN_ORDER[i - 1] and UPGRADES_IN_ORDER[i] (0-based).
CallNuOrdering(p, i) ==
    /\ query' = [op |-> "nu_ordering", params |-> p, i |-> i,
                 a |-> activation_height(p, UPGRADES_IN_ORDER[i]),
                 b |-> activation_height(p, UPGRADES_IN_ORDER[i + 1])]
    /\ UNCHANGED <<zfuture, verifierVars>>

(***************************************************************************)
(* Collaborators of verifier.rs: the Jubjub group, RedJubjub signatures,   *)
(* Groth16 proofs and the value-balance commitment.                        *)
(***************************************************************************)

\* jubjub::ExtendedPoint: the curve group, torsion part t and prime-order part s
Point == [t : 0..(TorsionOrder - 1), s : 0..(SubgroupOrder - 1)]

\* jubjub::ExtendedPoint::identity
identity == [t |-> 0, s |-> 0]

\* Add for ExtendedPoint
add(P, Q) == [t |-> (P.t + Q.t) % TorsionOrder, s |-> (P.s + Q.s) % SubgroupOrder]

\* Neg for ExtendedPoint
neg(P) == [t |-> (TorsionOrder - P.t) % TorsionOrder,
           s |-> (SubgroupOrder - P.s) % SubgroupOrder]

\* Sub for ExtendedPoint
sub(P, Q) == add(P, neg(Q))

\* Mul<Fr> for ExtendedPoint, k a natural number
mul(P, k) == [t |-> (P.t * k) % TorsionOrder, s |-> (P.s * k) % SubgroupOrder]

\* ExtendedPoint::is_small_order: the point lies in the torsion subgroup
is_small_order(P) == P.s = 0

\* GroupEncoding::to_bytes: the canonical encoding of a point
to_bytes(P) == P.t * SubgroupOrder + P.s

\* Curve::to_affine followed by get_u and get_v
get_u(P) == P.t
get_v(P) == P.s

\* constants::SPENDING_KEY_GENERATOR
SPENDING_KEY_GENERATOR == [t |-> 0, s |-> SubgroupOrder - 1]

\* constants::VALUE_COMMITMENT_RANDOMNESS_GENERATOR
VALUE_COMMITMENT_RANDOMNESS_GENERATOR == [t |-> 0, s |-> 1]

\* constants::VALUE_COMMITMENT_VALUE_GENERATOR
VALUE_COMMITMENT_VALUE_GENERATOR == [t |-> 0, s |-> SubgroupOrder - 1]

Sighashes == 0..MaxSighash

\* redjubjub::Signature made with secret key sk over a message ending in
\* sighash; canonical tells whether its R component is canonically encoded.
Signature == [sk : 0..(SubgroupOrder - 1), sighash : Sighashes, canonical : BOOLEAN]

\* redjubjub::PublicKey::verify_with_zip216.  A signature verifies under the
\* key of its signer for generator p_g, over the message it was made for;
\* with zip216_enabled a non-canonical encoding is rejected.
verify_with_zip216(vk, msg, sig, p_g, zip216) ==
    /\ zip216 => sig.canonical
    /\ vk = mul(p_g, sig.sk)
    /\ msg = <<to_bytes(mul(p_g, sig.sk)), sig.sighash>>

\* groth16::Proof: a proof is valid for one verifying key and one vector of
\* public inputs.
Prove(verifying_key, inputs) == [vk |-> verifying_key, inputs |-> inputs]

\* groth16::verify_proof(..).is_ok()
verify_proof(verifying_key, zkproof, public_input) ==
    zkproof.vk = verifying_key /\ zkproof.inputs = public_input

\* multipack::bytes_to_bits_le and multipack::compute_multipacking of a
\* nullifier: two scalars, low part first
compute_multipacking(nullifier) == <<nullifier % 2, nullifier \div 2>>

\* The declared value balances: the representable range and one value beyond
\* it on either side.
Amount == (0 - MaxAmount - 1)..(MaxAmount + 1)

\* sapling::compute_value_balance
compute_value_balance(value) ==
    IF value < 0 - MaxAmount \/ value > MaxAmount
    THEN None
    ELSE LET abs == IF value < 0 THEN 0 - value ELSE value
             value_balance == mul(VALUE_COMMITMENT_VALUE_GENERATOR, abs)
         IN  Some(IF value < 0 THEN neg(value_balance) ELSE value_balance)

(***************************************************************************)
(* verifier.rs                                                             *)
(***************************************************************************)
Scalar == 0..MaxScalar
Nullifier == 0..MaxNullifier

NoCall == [op |-> "none"]

\* the guard of check_spend without the test of rk
check_spend_guard_cv_only(cv, rk) == is_small_order(cv)

\* check_spend, the small-order guard
check_spend_guard(cv, rk) == is_small_order(cv) \/ is_small_order(rk)

\* check_spend, the running sum it leaves
check_spend_cv_sum(sum, cv, rk) ==
    IF check_spend_guard(cv, rk) THEN sum ELSE add(sum, cv)

\* check_spend, the public input of the spend circuit
check_spend_public_input(cv, anchor, nullifier, rk) ==
    <<get_u(rk), get_v(rk), get_u(cv), get_v(cv), anchor>>
        \o compute_multipacking(nullifier)

\* check_spend, the steps after the accumulation: which verifications ran,
\* what was handed to verify_proof, and the value returned
check_spend_steps(zip216, cv, anchor, nullifier, rk, sighash_value, spend_auth_sig, zkproof, verifying_key) ==
    IF check_spend_guard(cv, rk)
    THEN [auth |-> "skipped", proof |-> "skipped", public_input |-> <<>>, ret |-> FALSE]
    ELSE IF ~verify_with_zip216(rk, <<to_bytes(rk), sighash_value>>, spend_auth_sig,
                                SPENDING_KEY_GENERATOR, zip216)
         THEN [auth |-> "failed", proof |-> "skipped", public_input |-> <<>>,
               ret |-> FALSE]
         ELSE LET public_input == check_spend_public_input(cv, anchor, nullifier, rk)
                  ok == verify_proof(verifying_key, zkproof, public_input)
              IN  [auth |-> "ok", proof |-> IF ok THEN "ok" ELSE "failed",
                   public_input |-> public_input, ret |-> ok]

\* check_output, the small-order guard
check_output_guard(cv, epk) == is_small_order(cv) \/ is_small_order(epk)

\* check_output accumulating like check_spend
check_output_cv_sum_added(sum, cv, epk) ==
    IF is_small_order(cv) \/ is_small_order(epk) THEN sum ELSE add(sum, cv)

\* check_output, the running sum it leaves
check_output_cv_sum(sum, cv, epk) ==
    IF check_output_guard(cv, epk) THEN sum ELSE sub(sum, cv)

\* the public input of the output circuit with the ephemeral key first
check_output_public_input_epk_first(cv, cmu, epk) ==
    <<get_u(epk), get_v(epk), get_u(cv), get_v(cv), cmu>>

\* check_output, the public input of the output circuit
check_output_public_input(cv, cmu, epk) ==
    <<get_u(cv), get_v(cv), get_u(epk), get_v(epk), cmu>>

\* check_output, the steps after the accumulation
check_output_steps(cv, cmu, epk, zkproof, verifying_key) ==
    IF check_output_guard(cv, epk)
    THEN [proof |-> "skipped", public_input |-> <<>>, ret |-> FALSE]
    ELSE LET public_input == check_output_public_input(cv, cmu, epk)
             ok == verify_proof(verifying_key, zkproof, public_input)
         IN  [proof |-> IF ok THEN "ok" ELSE "failed", public_input |-> public_input,
              ret |-> ok]

\* final_check adding the balance commitment to the running sum
final_check_bvk_added(sum, value_balance) == add(sum, value_balance)

\* final_check, the balance verification key
final_check_bvk(sum, value_balance) == sub(sum, value_balance)

\* final_check taking an unrepresentable balance for a balance of zero
final_check_steps_unchecked(sum, zip216, value_balance, sighash_value, binding_sig) ==
    LET vb == compute_value_balance(value_balance)
        bvk == final_check_bvk(sum, IF vb.tag = "None" THEN identity ELSE vb.val)
        ok == verify_with_zip216(bvk, <<to_bytes(bvk), sighash_value>>, binding_sig,
                                 VALUE_COMMITMENT_RANDOMNESS_GENERATOR, zip216)
    IN  [binding |-> IF ok THEN "ok" ELSE "failed", ret |-> ok]

\* final_check, its steps: whether the binding signature was verified, and
\* the value returned
final_check_steps(sum, zip216, value_balance, sighash_value, binding_sig) ==
    LET vb == compute_value_balance(value_balance)
    IN  IF vb.tag = "None"
        THEN [binding |-> "skipped", ret |-> FALSE]
        ELSE LET bvk == final_check_bvk(sum, vb.val)
                 ok == verify_with_zip216(bvk, <<to_bytes(bvk), sighash_value>>,
                                          binding_sig,
                                          VALUE_COMMITMENT_RANDOMNESS_GENERATOR, zip216)
             IN  [binding |-> IF ok THEN "ok" ELSE "failed", ret |-> ok]

\* final_check starting the context afresh
final_check_cv_sum_reset(sum) == identity

\* final_check, the running sum it leaves: it takes &self
final_check_cv_sum(sum) == sum

\* The contexts constructed, while calls remain to be made
Callable == IF budget > 0 THEN DOMAIN cv_sum ELSE {}

\* The proofs offered to a call: one for each of the given input vectors
\* under the given key, and one for no statement of that circuit.
Proofs(verifying_key, statements) ==
    {Prove(verifying_key, st) : st \in statements \cup {<<>>}}

(***************************************************************************)
(* Actions of Spec: one per method of SaplingVerificationContext.          *)
(***************************************************************************)
\* check_spend accumulating into a sum shared by all the contexts
check_spend_shared(i, cv, anchor, nullifier, rk, sighash_value, spend_auth_sig, zkproof, verifying_key) ==
    /\ budget > 0
    /\ cv_sum' = [j \in DOMAIN cv_sum |-> check_spend_cv_sum(cv_sum[j], cv, rk)]
    /\ spends' = [spends EXCEPT ![i] =
                    IF check_spend_guard(cv, rk) THEN @ ELSE Append(@, cv)]
    /\ reused' = [reused EXCEPT ![i] = @ \/ finals[i] > 0]
    /\ budget' = budget - 1
    /\ last' = [op |-> "check_spend", ctx |-> i, cv |-> cv, key |-> rk,
                pre |-> cv_sum[i]]
               @@ check_spend_steps(zip216_enabled[i], cv, anchor, nullifier, rk,
                                    sighash_value, spend_auth_sig, zkproof,
                                    verifying_key)
    /\ UNCHANGED <<zip216_enabled, outputs, finals, consensusVars>>

\* check_spend restoring the running sum when it returns false
check_spend_rolled_back(i, cv, anchor, nullifier, rk, sighash_value, spend_auth_sig, zkproof, verifying_key) ==
    /\ budget > 0
    /\ LET steps == check_spend_steps(zip216_enabled[i], cv, anchor, nullifier, rk,
                                      sighash_value, spend_auth_sig, zkproof,
                                      verifying_key)
       IN  /\ cv_sum' = [cv_sum EXCEPT ![i] = IF steps.ret THEN add(@, cv) ELSE @]
           /\ last' = [op |-> "check_spend", ctx |-> i, cv |-> cv, key |-> rk,
                       pre |-> cv_sum[i]] @@ steps
    /\ spends' = [spends EXCEPT ![i] =
                    IF check_spend_guard(cv, rk) THEN @ ELSE Append(@, cv)]
    /\ reused' = [reused EXCEPT ![i] = @ \/ finals[i] > 0]
    /\ budget' = budget - 1
    /\ UNCHANGED <<zip216_enabled, outputs, finals, consensusVars>>

check_spend(i, cv, anchor, nullifier, rk, sighash_value, spend_auth_sig, zkproof, verifying_key) ==
    /\ budget > 0
    /\ cv_sum' = [cv_sum EXCEPT ![i] = check_spend_cv_sum(@, cv, rk)]
    /\ spends' = [spends EXCEPT ![i] =
                    IF check_spend_guard(cv, rk) THEN @ ELSE Append(@, cv)]
    /\ reused' = [reused EXCEPT ![i] = @ \/ finals[i] > 0]
    /\ budget' = budget - 1
    /\ last' = [op |-> "check_spend", ctx |-> i, cv |-> cv, key |-> rk,
                pre |-> cv_sum[i]]
               @@ check_spend_steps(zip216_enabled[i], cv, anchor, nullifier, rk,
                                    sighash_value, spend_auth_sig, zkproof,
                                    verifying_key)
    /\ UNCHANGED <<zip216_enabled, outputs, finals, consensusVars>>

check_output(i, cv, cmu, epk, zkproof, verifying_key) ==
    /\ budget > 0
    /\ cv_sum' = [cv_sum EXCEPT ![i] = check_output_cv_sum(@, cv, epk)]
    /\ outputs' = [outputs EXCEPT ![i] =
                     IF check_output_guard(cv, epk) THEN @ ELSE Append(@, cv)]
    /\ reused' = [reused EXCEPT ![i] = @ \/ finals[i] > 0]
    /\ budget' = budget - 1
    /\ last' = [op |-> "check_output", ctx |-> i, cv |-> cv, key |-> epk,
                cmu |-> cmu, pre |-> cv_sum[i]]
               @@ check_output_steps(cv, cmu, epk, zkproof, verifying_key)
    /\ UNCHANGED <<zip216_enabled, spends, finals, consensusVars>>

final_check(i, value_balance, sighash_value, binding_sig) ==
    /\ budget > 0
    /\ cv_sum' = [cv_sum EXCEPT ![i] = final_check_cv_sum(@)]
    /\ finals' = [finals EXCEPT ![i] = @ + 1]
    /\ budget' = budget - 1
    /\ last' = [op |-> "final_check", ctx |-> i, value_balance |-> value_balance,
                sighash |-> sighash_value, sig |-> binding_sig, pre |-> cv_sum[i]]
               @@ final_check_steps(cv_sum[i], zip216_enabled[i], value_balance,
                                    sighash_value, binding_sig)
    /\ UNCHANGED <<zip216_enabled, spends, outputs, reused, consensusVars>>

(***************************************************************************)
(* The two specifications.                                                 *)
(***************************************************************************)

\* SaplingVerificationContext::new, for each of n contexts on which calls
\* are then made
new(n, calls) ==
    /\ cv_sum = [i \in 1..n |-> identity]
    /\ zip216_enabled \in [1..n -> BOOLEAN]
    /\ spends = [i \in 1..n |-> <<>>]
    /\ outputs = [i \in 1..n |-> <<>>]
    /\ finals = [i \in 1..n |-> 0]
    /\ reused = [i \in 1..n |-> FALSE]
    /\ budget = calls
    /\ last = NoCall

\* One context, constructed for one transaction
Init ==
    /\ zfuture = FALSE
    /\ query = NoQuery
    /\ new(1, MaxCalls)

\* NumCtx contexts, constructed for as many transactions
InitPar ==
    /\ zfuture = FALSE
    /\ query = NoQuery
    /\ new(NumCtx, MaxParCalls)

Next ==
    \/ \E i \in Callable, cv \in Point, anchor \in Scalar, nullifier \in Nullifier,
          rk \in Point, sighash_value \in Sighashes, spend_auth_sig \in Signature :
          \E zkproof \in Proofs("spend",
                                {check_spend_public_input(cv, anchor, nullifier, rk)}) :
              check_spend(i, cv, anchor, nullifier, rk, sighash_value, spend_auth_sig,
                          zkproof, "spend")
    \/ \E i \in Callable, cv \in Point, cmu \in Scalar, epk \in Point :
          \E zkproof \in Proofs("output",
                                {<<get_u(cv), get_v(cv), get_u(epk), get_v(epk), cmu>>,
                                 <<get_u(epk), get_v(epk), get_u(cv), get_v(cv), cmu>>}) :
              check_output(i, cv, cmu, epk, zkproof, "output")
    \/ \E i \in Callable, value_balance \in Amount, sighash_value \in Sighashes,
          binding_sig \in Signature :
          final_check(i, value_balance, sighash_value, binding_sig)

Spec == Init /\ [][Next]_vars

SpecPar == InitPar /\ [][Next]_vars

\* The consensus functions on either build; every context freshly constructed
InitConsensus ==
    /\ zfuture \in BOOLEAN
    /\ query = NoQuery
    /\ new(1, 0)
    /\ zip216_enabled[1] = FALSE

NextConsensus ==
    \/ \E p \in ParametersImpls, nu \in NetworkUpgrade : CallActivationHeight(p, nu)
    \/ \E p \in ParametersImpls, nu \in NetworkUpgrade, height \in HeightInputs :
          CallIsNuActive(p, nu, height)
    \/ \E p \in ParametersImpls, height \in HeightInputs : CallForHeight(p, height)
    \/ \E value \in WireInputs : CallTryFrom(value)
    \/ \E b \in BranchId : CallU32From(b)
    \/ \E p \in ParametersImpls, i \in 1..(Len(UPGRADES_IN_ORDER) - 1) :
          CallNuOrdering(p, i)
    \/ \E height \in HeightInputs, delta \in HeightInputs : CallSubU32(height, delta)
    \/ \E height \in HeightInputs, other \in HeightInputs : CallSub(height, other)

SpecConsensus == InitConsensus /\ [][NextConsensus]_vars

(***************************************************************************)
(* Properties of the consensus functions, checked under SpecConsensus.     *)
(***************************************************************************)

\* The positions of UPGRADES_IN_ORDER whose upgrade has an activation height
\* at or below h on network p.
ActiveAt(p, h) ==
    {i \in 1..Len(UPGRADES_IN_ORDER) :
        LET a == activation_height(p, UPGRADES_IN_ORDER[i])
        IN  a.tag = "Some" /\ a.val <= h}

\* C3: for every network (main, test, dispatcher) and height, for_height
\* returns the branch of the latest upgrade of UPGRADES_IN_ORDER active at that
\* height and Sprout when none is; on the main network 0 gives Sprout, 419199
\* Overwinter, 419200 Sapling and 570000 Ycash.
ForHeightLatestActive ==
    query.op = "for_height" =>
        LET act == ActiveAt(query.params, query.height)
            isMain == query.params \in {"MAIN_NETWORK", "Network::MainNetwork"}
        IN  /\ act = {} => query.result = "Sprout"
            /\ act # {} =>
                 query.result =
                     branch_id(UPGRADES_IN_ORDER[CHOOSE i \in act : \A j \in act : j <= i])
            /\ isMain /\ query.height = 0 => query.result = "Sprout"
            /\ isMain /\ query.height = 419199 => query.result = "Overwinter"
            /\ isMain /\ query.height = 419200 => query.result = "Sapling"
            /\ isMain /\ query.height = 570000 => query.result = "Ycash"

\* for_height was asked for the Sapling activation height of the main network
ForHeightSaplingBoundary ==
    /\ query.op = "for_height"
    /\ query.params = "MAIN_NETWORK"
    /\ query.height = 419200
    /\ query.result = "Sapling"

\* C6: is_nu_active(u, h) is true exactly when the activation height of u is
\* present and at most h: the activation height itself is active, the height
\* before it is not, an unscheduled upgrade never is.
IsNuActiveIffReached ==
    query.op = "is_nu_active" =>
        LET a == activation_height(query.params, query.nu)
        IN  /\ a.tag = "None" => query.result = FALSE
            /\ a.tag = "Some" /\ query.height >= a.val => query.result = TRUE
            /\ a.tag = "Some" /\ query.height < a.val => query.result = FALSE

\* is_nu_active was asked for an upgrade at its own activation height
IsNuActiveAtActivation ==
    /\ query.op = "is_nu_active"
    /\ query.params = "MAIN_NETWORK"
    /\ query.nu = "Overwinter"
    /\ query.height = 347500
    /\ query.result = TRUE

\* C7: on every network the activation heights of neighbours in
\* UPGRADES_IN_ORDER strictly increase when both are defined.
ActivationHeightsIncrease ==
    query.op = "nu_ordering" =>
        (query.a.tag = "Some" /\ query.b.tag = "Some" => query.a.val < query.b.val)

\* the neighbours Sapling and Ycash of the test network were compared
TestNetworkNeighboursCompared ==
    /\ query.op = "nu_ordering"
    /\ query.params = "TEST_NETWORK"
    /\ query.a = Some(280000)
    /\ query.b = Some(510248)

\* C8: BranchId and its 32-bit identifier are in bijection over the variants
\* defined: decoding the encoding of b gives b, distinct variants have
\* distinct encodings, and decoding any other value (1, say) fails with the
\* unknown-branch-id error.
BranchIdWireBijection ==
    /\ query.op = "u32_from" => try_from(query.result) = Ok(query.branch)
    /\ \A b1, b2 \in BranchId : b1 # b2 => u32_from(b1) # u32_from(b2)
    /\ query.op = "try_from" =>
         /\ query.value \notin {u32_from(b) : b \in BranchId} =>
                query.result = Err("Unknown consensus branch ID")
         /\ query.value \in {u32_from(b) : b \in BranchId} =>
                /\ query.result.tag = "Ok"
                /\ query.result.val \in BranchId
                /\ u32_from(query.result.val) = query.value

\* the undefined identifier 1 was decoded, and refused
UndefinedWireValueRefused ==
    /\ query.op = "try_from"
    /\ query.value = U32(0, 1)
    /\ query.result = Err("Unknown consensus branch ID")

\* C11: subtracting a delta d from a height a gives the height a - d when
\* d <= a and panics when d > a: the result is then no height (neither wrapped
\* nor clamped) and no error value.  This holds for BlockHeight - u32 and for
\* BlockHeight - BlockHeight.
HeightSubtractionPanicsOnUnderflow ==
    query.op \in {"sub_u32", "sub"} =>
        /\ query.delta <= query.height =>
               query.result = BlockHeight(query.height - query.delta)
        /\ query.delta > query.height =>
               /\ query.result.tag = "Panic"
               /\ query.result.tag \notin {"BlockHeight", "Ok", "Err", "Some", "None"}

\* BlockHeight(207499) - BlockHeight(207500) has panicked
HeightMinusHeightUnderflowed ==
    /\ query.op = "sub"
    /\ query.height = 207499
    /\ query.delta = 207500
    /\ query.result = Panic("Subtraction resulted in negative block height.")

(***************************************************************************)
(* Properties of the verification context, checked under Spec and SpecPar. *)
(***************************************************************************)

\* The sum of a sequence of points, from the last to the first.
RECURSIVE SumSeq(_)
SumSeq(q) == IF q = <<>> THEN identity ELSE add(Head(q), SumSeq(Tail(q)))

Reverse(q) == [k \in 1..Len(q) |-> q[Len(q) + 1 - k]]

\* The commitment to a value balance v with no randomness: [v] of the value
\* generator.
BalanceCommitment(v) ==
    [t |-> 0, s |-> (v * VALUE_COMMITMENT_VALUE_GENERATOR.s) % SubgroupOrder]

\* C1: final_check returns true exactly when the declared balance is in range
\* and the binding signature verifies, under the context's policy flag, over
\* the key (running sum minus the commitment of the declared balance); for
\* commitments that balance to the declared value, signed with the aggregate
\* randomness, it returns true, and with the balance one unit off, false.
FinalCheckIffBalanced ==
    last.op = "final_check" =>
        LET i == last.ctx
            v == last.value_balance
            inRange == v >= 0 - MaxAmount /\ v <= MaxAmount
            key == sub(cv_sum[i], BalanceCommitment(v))
            balanced ==
                sub(SumSeq(spends[i]), SumSeq(outputs[i])) =
                    add(BalanceCommitment(v),
                        mul(VALUE_COMMITMENT_RANDOMNESS_GENERATOR, last.sig.sk))
        IN  /\ last.ret <=>
                 /\ inRange
                 /\ verify_with_zip216(key, <<to_bytes(key), last.sighash>>, last.sig,
                                       VALUE_COMMITMENT_RANDOMNESS_GENERATOR,
                                       zip216_enabled[i])
            /\ ( /\ inRange
                 /\ balanced
                 /\ last.sig.sighash = last.sighash
                 /\ zip216_enabled[i] => last.sig.canonical ) => last.ret
            /\ last.ret =>
                 \A d \in {0 - 1, 1} :
                    ~final_check_steps(cv_sum[i], zip216_enabled[i], v + d, last.sighash,
                                       last.sig).ret

\* a spend and an output were accumulated and final_check accepted the
\* balance 1 between them
BalancedTransactionAccepted ==
    /\ last.op = "final_check"
    /\ last.ret
    /\ last.value_balance = 1
    /\ Len(spends[last.ctx]) = 1
    /\ Len(outputs[last.ctx]) = 1

\* C2: after any calls that pass the small-order guard the running sum is the
\* identity plus the commitments given to check_spend minus those given to
\* check_output, in whatever order they came; the order of the spends or of
\* the outputs does not change what final_check then returns.
RunningSumIsSpendsMinusOutputs ==
    \A i \in DOMAIN cv_sum :
        LET inOrder == sub(add(identity, SumSeq(spends[i])), SumSeq(outputs[i]))
            reversed == sub(add(identity, SumSeq(Reverse(spends[i]))),
                            SumSeq(Reverse(outputs[i])))
        IN  /\ cv_sum[i] = inOrder
            /\ cv_sum[i] = reversed
            /\ \A v \in Amount, h \in Sighashes, sig \in Signature :
                  final_check_steps(cv_sum[i], zip216_enabled[i], v, h, sig).ret =
                      final_check_steps(reversed, zip216_enabled[i], v, h, sig).ret

\* two different commitments were accumulated by check_spend
TwoSpendsAccumulated ==
    \E i \in DOMAIN cv_sum :
        /\ Len(spends[i]) = 2
        /\ spends[i][1] # spends[i][2]
        /\ last.op = "check_spend"

\* C4: check_spend returns false and leaves the running sum alone when the
\* value commitment or the signing key is of small order, and so does
\* check_output for the value commitment or the ephemeral key.
SmallOrderRejected ==
    last.op \in {"check_spend", "check_output"} =>
        (is_small_order(last.cv) \/ is_small_order(last.key) =>
            /\ last.ret = FALSE
            /\ cv_sum[last.ctx] = last.pre
            /\ cv_sum[last.ctx] =
                   sub(SumSeq(spends[last.ctx]), SumSeq(outputs[last.ctx])))

\* check_spend was given a good commitment and a torsion point as signing key
SpendWithTorsionKeyRejected ==
    /\ last.op = "check_spend"
    /\ ~is_small_order(last.cv)
    /\ last.key = [t |-> 1, s |-> 0]
    /\ last.ret = FALSE
    /\ cv_sum[last.ctx] = last.pre

\* C5 as stated: on no context is final_check performed a second time, or a
\* check_spend or check_output performed after final_check.
FinalizedIsTerminal ==
    \A i \in DOMAIN cv_sum : finals[i] <= 1 /\ ~reused[i]

\* C5 as amended: final_check does not make the context terminal; it leaves
\* the running sum as it was (no reset), whatever was accumulated before.
FinalCheckKeepsRunningSum ==
    last.op = "final_check" =>
        /\ cv_sum[last.ctx] = last.pre
        /\ cv_sum[last.ctx] = sub(SumSeq(spends[last.ctx]), SumSeq(outputs[last.ctx]))

\* final_check ran a second time on a context that had accumulated a
\* commitment, and found the running sum still there
SecondFinalCheckOnSameSum ==
    /\ last.op = "final_check"
    /\ finals[last.ctx] = 2
    /\ cv_sum[last.ctx] # identity
    /\ cv_sum[last.ctx] = last.pre

\* C9: with a declared value balance outside the representable range
\* final_check returns false, whatever the running sum, the sighash and the
\* signature are, and the signature is not verified.
OutOfRangeBalanceRejected ==
    last.op = "final_check" =>
        (last.value_balance < 0 - MaxAmount \/ last.value_balance > MaxAmount =>
            last.ret = FALSE /\ last.binding = "skipped")

\* final_check was given a balance above the range, with a signature that
\* the key of the running sum alone would verify
OutOfRangeBalanceSeen ==
    /\ last.op = "final_check"
    /\ last.value_balance > MaxAmount
    /\ last.ret = FALSE
    /\ cv_sum[last.ctx] = mul(VALUE_COMMITMENT_RANDOMNESS_GENERATOR, last.sig.sk)
    /\ last.sig.sighash = last.sighash
    /\ last.sig.canonical

\* C12: a check_spend or check_output call that passed the small-order guard
\* has applied its value commitment to the running sum (added by a spend,
\* subtracted by an output) also when it returned false because the
\* authorization signature or the proof did not verify: the running sum is not
\* rolled back to its value before the call.
AccumulationSurvivesFailure ==
    /\ (last.op = "check_spend" /\ ~check_spend_guard(last.cv, last.key)) =>
           /\ cv_sum[last.ctx] = add(last.pre, last.cv)
           /\ ~last.ret => (last.auth = "failed" \/ last.proof = "failed")
           /\ ~last.ret => cv_sum[last.ctx] # last.pre
    /\ (last.op = "check_output" /\ ~check_output_guard(last.cv, last.key)) =>
           /\ cv_sum[last.ctx] = sub(last.pre, last.cv)
           /\ ~last.ret => last.proof = "failed"
           /\ ~last.ret => cv_sum[last.ctx] # last.pre

\* a check_spend whose authorization signature did not verify has returned
\* false, and the running sum has moved by its value commitment
SpendWithBadSignatureAccumulated ==
    /\ last.op = "check_spend"
    /\ last.auth = "failed"
    /\ ~last.ret
    /\ cv_sum[last.ctx] = add(last.pre, last.cv)
    /\ cv_sum[last.ctx] # last.pre

\* C13, as stated: the public input that check_output hands to proof
\* verification is 5 scalars: the two affine coordinates of the ephemeral key,
\* then the two of the value commitment, then the note commitment.
OutputPublicInputEpkThenCv ==
    (last.op = "check_output" /\ last.proof # "skipped") =>
        /\ Len(last.public_input) = 5
        /\ last.public_input = <<get_u(last.key), get_v(last.key),
                                 get_u(last.cv), get_v(last.cv), last.cmu>>

\* C13, amended: the public input that check_output hands to proof
\* verification is exactly 5 scalars in this order: the two affine coordinates
\* of the value commitment, then the two affine coordinates of the ephemeral
\* key, then the note commitment scalar, with no nullifier packing.
OutputPublicInputCvThenEpk ==
    (last.op = "check_output" /\ last.proof # "skipped") =>
        /\ Len(last.public_input) = 5
        /\ last.public_input = <<get_u(last.cv), get_v(last.cv),
                                 get_u(last.key), get_v(last.key), last.cmu>>

\* check_output has accepted a proof for a value commitment and an ephemeral
\* key with different coordinates, on the input that starts with the
\* coordinates of the value commitment
OutputProofAcceptedCvFirst ==
    /\ last.op = "check_output"
    /\ last.ret
    /\ last.cv # last.key
    /\ last.public_input = <<get_u(last.cv), get_v(last.cv),
                             get_u(last.key), get_v(last.key), last.cmu>>
    /\ last.public_input # <<get_u(last.key), get_v(last.key),
                             get_u(last.cv), get_v(last.cv), last.cmu>>

\* C10: contexts share no state: under any interleaving of calls on distinct
\* contexts, the running sum of each is the one its own calls produce, its
\* policy flag is the one it was constructed with, a call changes no other
\* context, and the result of final_check depends on its own context only.
ContextsShareNothing ==
    /\ [](\A i \in DOMAIN cv_sum :
             cv_sum[i] = sub(SumSeq(spends[i]), SumSeq(outputs[i])))
    /\ [](last.op = "final_check" =>
             last.ret =
                 final_check_steps(sub(SumSeq(spends[last.ctx]), SumSeq(outputs[last.ctx])),
                                   zip216_enabled[last.ctx], last.value_balance,
                                   last.sighash, last.sig).ret)
    /\ [][ /\ zip216_enabled' = zip216_enabled
           /\ \A j \in DOMAIN cv_sum :
                 j # last'.ctx =>
                    /\ cv_sum'[j] = cv_sum[j]
                    /\ spends'[j] = spends[j]
                    /\ outputs'[j] = outputs[j]
                    /\ finals'[j] = finals[j] ]_vars

\* two contexts with different policy flags have each accumulated a spend
TwoContextsInUse ==
    /\ DOMAIN cv_sum = 1..NumCtx
    /\ Len(spends[1]) = 1
    /\ Len(spends[2]) = 1
    /\ spends[1] # spends[2]
    /\ zip216_enabled[1] # zip216_enabled[2]

====
